---- MODULE Spec2Model ----
(***************************************************************************)
(* Model of calculate_psi (src/psi.py): the Population Stability Index of  *)
(* two samples.  One call is modelled as a sequence of steps, one per      *)
(* statement group of the function body; the local variables of the call   *)
(* are the state.                                                          *)
(*                                                                         *)
(* Numbers.  Sample values are integers.  Histogram edges and densities    *)
(* are exact rationals: an edge is a numerator over the common denominator *)
(* 2 * bins (the factor 2 carries the +-0.5 widening of a zero-width       *)
(* range), a density is a pair <<numerator, denominator>>.  The natural    *)
(* logarithm is modelled by what decides every property below: its sign    *)
(* and its non-finite results (log 0 = -inf, log inf = inf, log nan = nan).*)
(* A per-bin term and the final sum are therefore one of                   *)
(*   "zero" "pos" "neg" "inf" "-inf" "nan",  and for a sum "mixed"         *)
(* (finite terms of both signs: the sign of the sum is not determined).    *)
(***************************************************************************)
EXTENDS Integers, Sequences, FiniteSets, TLC

\* ---------------------------------------------------------------- bounds
MaxLen == 2
MaxVal == 2
NumCats == 3
MaxBins == 3

\* category labels in their lexical order; NumCats of them are in use
Alphabet == <<"a", "b", "c", "d", "e">>

NumValues == 0..MaxVal
CatValues == {Alphabet[i] : i \in 1..NumCats}
BinArgs == (-1)..MaxBins

SeqsUpTo(S, n) == UNION {[1..m -> S] : m \in 0..n}

\* ---------------------------------------------------------------- helpers
\* lexical rank of a category label (the order np.unique sorts strings by)
CatRank(c) == CHOOSE i \in 1..Len(Alphabet) : Alphabet[i] = c

\* a < b in the element type's order: integers by value, strings lexically
Less(dt, a, b) == IF dt = "str" THEN CatRank(a) < CatRank(b) ELSE a < b

RECURSIVE SumSeq(_)
SumSeq(s) == IF s = <<>> THEN 0 ELSE Head(s) + SumSeq(Tail(s))

Range(s) == {s[i] : i \in 1..Len(s)}

\* ndarray.min() / ndarray.max() of a non-empty array
ArrMin(a) == CHOOSE m \in Range(a) : \A x \in Range(a) : m <= x
ArrMax(a) == CHOOSE m \in Range(a) : \A x \in Range(a) : m >= x

\* Python min(x, y) / max(x, y)
Min2(x, y) == IF y < x THEN y ELSE x
Max2(x, y) == IF y > x THEN y ELSE x

\* np.issubdtype(dtype, np.integer) or np.issubdtype(dtype, np.floating)
IsNumeric(dt) == dt \in {"int", "float"}

\* ----------------------------------------------------- categorical encoding
\* np.concatenate([actual_data, new_data])
Concatenate(a, b) == a \o b

\* np.unique(...)[0]: the distinct values, sorted ascending
RECURSIVE SortedSeq(_, _)
SortedSeq(dt, S) ==
    IF S = {} THEN <<>>
    ELSE LET m == CHOOSE x \in S : \A y \in S : ~Less(dt, y, x)
         IN <<m>> \o SortedSeq(dt, S \ {m})

Unique(dt, combined) == SortedSeq(dt, Range(combined))

\* np.unique(..., return_inverse=True)[1]: for each element the 0-based
\* index of its value in the sorted distinct values
Inverse(uniq, combined) ==
    [i \in 1..Len(combined) |->
        (CHOOSE j \in 1..Len(uniq) : uniq[j] = combined[i]) - 1]

\* encoded_data[:len(actual_data)]
EncodedActual(encoded, n) == SubSeq(encoded, 1, Min2(n, Len(encoded)))

\* (variant: the comparison sample taken from the front of the encoding)
EncodedNewPrefix(encoded, n) == SubSeq(encoded, 1, Len(encoded) - Min2(n, Len(encoded)))

\* encoded_data[len(actual_data):]
EncodedNew(encoded, n) == SubSeq(encoded, Min2(n, Len(encoded)) + 1, Len(encoded))

\* (variant: the caller's bin count kept)
CategoricalBinsKept(uniq, bins_arg) == bins_arg

\* bins = len(unique_categories)
CategoricalBins(uniq, bins_arg) == Len(uniq)

\* ---------------------------------------------------------------- histogram
\* (variant: the range of the baseline alone)
DataRangeBaselineOnly(a, b) == <<ArrMin(a), ArrMax(a)>>

\* data_range = (min(a.min(), b.min()), max(a.max(), b.max()))
DataRange(a, b) == <<Min2(ArrMin(a), ArrMin(b)), Max2(ArrMax(a), ArrMax(b))>>

\* numpy _get_outer_edges, in half units: a zero-width range is widened by
\* 0.5 on each side
OuterEdges(rng) ==
    IF rng[1] = rng[2] THEN <<2 * rng[1] - 1, 2 * rng[2] + 1>>
    ELSE <<2 * rng[1], 2 * rng[2]>>

\* bin edge i (0-based) of k equal bins between the outer edges oe:
\* first + i * (last - first) / k, as a numerator over 2 * k
Edge(oe, k, i) == oe[1] * k + i * (oe[2] - oe[1])

\* np.linspace(first_edge, last_edge, k + 1)
BinEdges(rng, k) == [i \in 1..(k + 1) |-> Edge(OuterEdges(rng), k, i - 1)]

\* (variant: the right edge excluded)
KeepHalfOpen(x, oe) == 2 * x >= oe[1] /\ 2 * x < oe[2]

\* keep = (a >= first_edge) & (a <= last_edge)
Keep(x, oe) == 2 * x >= oe[1] /\ 2 * x <= oe[2]

\* the bin (0-based) of a kept element x, as np.histogram computes it for
\* equal-width bins: truncate the scaled offset, fold the right edge into
\* the last bin, then correct against the bin edges
BinIndex(x, rng, k) ==
    LET oe == OuterEdges(rng)
        xs == 2 * x * k
        f == ((2 * x - oe[1]) * k) \div (oe[2] - oe[1])
        i1 == IF f = k THEN f - 1 ELSE f
        i2 == IF xs < Edge(oe, k, i1) THEN i1 - 1 ELSE i1
        i3 == IF xs >= Edge(oe, k, i2 + 1) /\ i2 # k - 1 THEN i2 + 1 ELSE i2
    IN i3

\* np.histogram(a, bins=k, range=rng) for k >= 1: the pair (counts, bin edges)
\* (elements outside the range are dropped, the others are counted per bin)
Histogram(a, k, rng) ==
    LET indices == [i \in 1..Len(a) |->
                      IF Keep(a[i], OuterEdges(rng)) THEN BinIndex(a[i], rng, k) ELSE -1]
    IN <<[b \in 1..k |-> Cardinality({i \in 1..Len(a) : indices[i] = b - 1})],
         BinEdges(rng, k)>>

\* np.histogram raises ValueError("`bins` must be positive, when an integer")
\* (variant: only a negative count is rejected)
BinsInvalidNegativeOnly(k) == k < 0

BinsInvalid(k) == k < 1

\* (variant: the comparison histogram over the comparison sample's own range)
NewHistogramOwnRange(a, k, rng) == Histogram(a, k, <<ArrMin(a), ArrMax(a)>>)

\* line 51 and line 52: the two histogram calls
ActualHistogram(a, k, rng) == Histogram(a, k, rng)
NewHistogram(a, k, rng) == Histogram(a, k, rng)

\* ------------------------------------------------ densities and divergence
\* (variant: divided by the number of bins)
FractionsByBins(hist, data) == [i \in 1..Len(hist) |-> <<hist[i], Len(hist)>>]

\* hist / len(data)
Fractions(hist, data) == [i \in 1..Len(hist) |-> <<hist[i], Len(data)>>]

\* the constant 0.0001
SmallNumber == <<1, 10000>>

\* np.where(fractions == 0, 0.0001, fractions)
FloorZeros(fr) == [i \in 1..Len(fr) |-> IF fr[i][1] = 0 THEN SmallNumber ELSE fr[i]]

\* (variant: no floor on the baseline side)
ActualFloorNone(fr) == fr

\* (variant: another constant on the comparison side)
NewFloorOtherConstant(fr) ==
    [i \in 1..Len(fr) |-> IF fr[i][1] = 0 THEN <<1, 1000>> ELSE fr[i]]

\* line 59 and line 60
ActualFloor(fr) == FloorZeros(fr)
NewFloor(fr) == FloorZeros(fr)

Sign(n) == IF n > 0 THEN "pos" ELSE IF n < 0 THEN "neg" ELSE "zero"

\* p - q
DiffSign(p, q) == Sign(p[1] * q[2] - q[1] * p[2])

\* np.log(p / q): the division first (x/0 = inf, 0/0 = nan), then the log
LogRatio(p, q) ==
    IF q[1] = 0 THEN (IF p[1] = 0 THEN "nan" ELSE "inf")
    ELSE IF p[1] = 0 THEN "-inf"
    ELSE Sign(p[1] * q[2] - q[1] * p[2])

\* IEEE product of a finite difference and a logarithm
Times(d, l) ==
    CASE l = "nan" -> "nan"
      [] l = "zero" \/ d = "zero" -> (IF l \in {"inf", "-inf"} THEN "nan" ELSE "zero")
      [] l = "inf" -> (IF d = "pos" THEN "inf" ELSE "-inf")
      [] l = "-inf" -> (IF d = "pos" THEN "-inf" ELSE "inf")
      [] OTHER -> (IF d = l THEN "pos" ELSE "neg")

\* (variant: the ratio inverted)
PsiTermInvertedRatio(p, q) == Times(DiffSign(p, q), LogRatio(q, p))

\* (p - q) * np.log(p / q) for one bin
PsiTerm(p, q) == Times(DiffSign(p, q), LogRatio(p, q))

PsiValues(af, nf) == [i \in 1..Len(af) |-> PsiTerm(af[i], nf[i])]

\* np.sum(psi_values)
SumTerms(terms) ==
    LET T == Range(terms)
    IN CASE "nan" \in T \/ ("inf" \in T /\ "-inf" \in T) -> "nan"
         [] "inf" \in T -> "inf"
         [] "-inf" \in T -> "-inf"
         [] "pos" \in T /\ "neg" \in T -> "mixed"
         [] "pos" \in T -> "pos"
         [] "neg" \in T -> "neg"
         [] OTHER -> "zero"

\* ------------------------------------------------------------------- state
VARIABLES
    pc,                 \* the statement the call is at
    arg_actual,         \* the caller's actual_data argument
    arg_new,            \* the caller's new_data argument
    arg_bins,           \* the caller's bins argument
    dtype,              \* element type of the coerced baseline
    actual_data, new_data, bins,
    combined_data, unique_categories, encoded_data,
    warnings,           \* number of warnings.warn calls made
    data_range,
    actual_hist, new_hist,
    actual_edges, new_edges,    \* the bin edges np.histogram returns
    actual_fractions, new_fractions,
    raw_actual, raw_new,        \* the densities before the zero floor
    psi_values, psi_value,
    error               \* the exception the call ended in, or "none"

vars == <<pc, arg_actual, arg_new, arg_bins, dtype, actual_data, new_data, bins,
          combined_data, unique_categories, encoded_data, warnings, data_range,
          actual_hist, new_hist, actual_edges, new_edges,
          actual_fractions, new_fractions, raw_actual, raw_new,
          psi_values, psi_value, error>>

Init ==
    /\ pc = "cast"
    /\ dtype \in {"int", "str"}
    /\ arg_actual \in SeqsUpTo(IF dtype = "str" THEN CatValues ELSE NumValues, MaxLen)
    /\ arg_new \in SeqsUpTo(IF dtype = "str" THEN CatValues ELSE NumValues, MaxLen)
    /\ arg_bins \in BinArgs
    /\ actual_data = arg_actual
    /\ new_data = arg_new
    /\ bins = arg_bins
    /\ combined_data = <<>>
    /\ unique_categories = <<>>
    /\ encoded_data = <<>>
    /\ warnings = 0
    /\ data_range = <<>>
    /\ actual_hist = <<>>
    /\ new_hist = <<>>
    /\ actual_edges = <<>>
    /\ new_edges = <<>>
    /\ actual_fractions = <<>>
    /\ new_fractions = <<>>
    /\ raw_actual = <<>>
    /\ raw_new = <<>>
    /\ psi_values = <<>>
    /\ psi_value = "unset"
    /\ error = "none"

\* lines 34-37: coerce both inputs, then branch on the baseline's dtype
Cast ==
    /\ pc = "cast"
    /\ pc' = IF IsNumeric(dtype) THEN "range" ELSE "encode"
    /\ UNCHANGED <<arg_actual, arg_new, arg_bins, dtype, actual_data, new_data, bins,
                   combined_data, unique_categories, encoded_data, warnings,
                   data_range, actual_hist, new_hist, actual_edges, new_edges,
                   actual_fractions, new_fractions, raw_actual, raw_new,
                   psi_values, psi_value, error>>

\* lines 38-45: categorical encoding, bin override and the warning
Encode ==
    /\ pc = "encode"
    /\ LET comb == Concatenate(actual_data, new_data)
           uniq == Unique(dtype, comb)
           enc == Inverse(uniq, comb)
           act == EncodedActual(enc, Len(actual_data))
       IN /\ combined_data' = comb
          /\ unique_categories' = uniq
          /\ encoded_data' = enc
          /\ actual_data' = act
          /\ new_data' = EncodedNew(enc, Len(act))
          /\ bins' = CategoricalBins(uniq, bins)
    /\ warnings' = warnings + 1
    /\ pc' = "range"
    /\ UNCHANGED <<arg_actual, arg_new, arg_bins, dtype, data_range,
                   actual_hist, new_hist, actual_edges, new_edges,
                   actual_fractions, new_fractions, raw_actual, raw_new,
                   psi_values, psi_value, error>>

\* line 48: the shared range; .min() of an empty array raises ValueError
ComputeRange ==
    /\ pc = "range"
    /\ IF actual_data = <<>> \/ new_data = <<>>
       THEN /\ pc' = "error"
            /\ error' = "ValueError: zero-size array"
            /\ UNCHANGED data_range
       ELSE /\ pc' = "actual_hist"
            /\ data_range' = DataRange(actual_data, new_data)
            /\ UNCHANGED error
    /\ UNCHANGED <<arg_actual, arg_new, arg_bins, dtype, actual_data, new_data, bins,
                   combined_data, unique_categories, encoded_data, warnings,
                   actual_hist, new_hist, actual_edges, new_edges,
                   actual_fractions, new_fractions, raw_actual, raw_new,
                   psi_values, psi_value>>

\* line 51: histogram of the baseline
HistActual ==
    /\ pc = "actual_hist"
    /\ IF BinsInvalid(bins)
       THEN /\ pc' = "error"
            /\ error' = "ValueError: bins must be positive"
            /\ UNCHANGED <<actual_hist, actual_edges>>
       ELSE /\ pc' = "new_hist"
            /\ actual_hist' = ActualHistogram(actual_data, bins, data_range)[1]
            /\ actual_edges' = ActualHistogram(actual_data, bins, data_range)[2]
            /\ UNCHANGED error
    /\ UNCHANGED <<arg_actual, arg_new, arg_bins, dtype, actual_data, new_data, bins,
                   combined_data, unique_categories, encoded_data, warnings,
                   data_range, new_hist, new_edges,
                   actual_fractions, new_fractions, raw_actual, raw_new,
                   psi_values, psi_value>>

\* line 52: histogram of the comparison sample
HistNew ==
    /\ pc = "new_hist"
    /\ IF BinsInvalid(bins)
       THEN /\ pc' = "error"
            /\ error' = "ValueError: bins must be positive"
            /\ UNCHANGED <<new_hist, new_edges>>
       ELSE /\ pc' = "normalize"
            /\ new_hist' = NewHistogram(new_data, bins, data_range)[1]
            /\ new_edges' = NewHistogram(new_data, bins, data_range)[2]
            /\ UNCHANGED error
    /\ UNCHANGED <<arg_actual, arg_new, arg_bins, dtype, actual_data, new_data, bins,
                   combined_data, unique_categories, encoded_data, warnings,
                   data_range, actual_hist, actual_edges,
                   actual_fractions, new_fractions, raw_actual, raw_new,
                   psi_values, psi_value>>

\* lines 55-56: counts to proportions
Normalize ==
    /\ pc = "normalize"
    /\ actual_fractions' = Fractions(actual_hist, actual_data)
    /\ new_fractions' = Fractions(new_hist, new_data)
    /\ raw_actual' = actual_fractions'
    /\ raw_new' = new_fractions'
    /\ pc' = "floor"
    /\ UNCHANGED <<arg_actual, arg_new, arg_bins, dtype, actual_data, new_data, bins,
                   combined_data, unique_categories, encoded_data, warnings,
                   data_range, actual_hist, new_hist, actual_edges, new_edges,
                   psi_values, psi_value, error>>

\* lines 59-60: replace zero proportions by 0.0001
Floor ==
    /\ pc = "floor"
    /\ actual_fractions' = ActualFloor(actual_fractions)
    /\ new_fractions' = NewFloor(new_fractions)
    /\ pc' = "psi"
    /\ UNCHANGED <<arg_actual, arg_new, arg_bins, dtype, actual_data, new_data, bins,
                   combined_data, unique_categories, encoded_data, warnings,
                   data_range, actual_hist, new_hist, actual_edges, new_edges,
                   raw_actual, raw_new, psi_values, psi_value, error>>

\* lines 63-66: per-bin terms, their sum, return
Psi ==
    /\ pc = "psi"
    /\ psi_values' = PsiValues(actual_fractions, new_fractions)
    /\ psi_value' = SumTerms(psi_values')
    /\ pc' = "done"
    /\ UNCHANGED <<arg_actual, arg_new, arg_bins, dtype, actual_data, new_data, bins,
                   combined_data, unique_categories, encoded_data, warnings,
                   data_range, actual_hist, new_hist, actual_edges, new_edges,
                   actual_fractions, new_fractions, raw_actual, raw_new, error>>

Next == Cast \/ Encode \/ ComputeRange \/ HistActual \/ HistNew \/ Normalize \/ Floor \/ Psi

Spec == Init /\ [][Next]_vars

\* the whole call as a function of its arguments: the value returned, or
\* "error" when an exception reaches the caller
CalculatePsi(dt, a, b, k) ==
    LET comb == Concatenate(a, b)
        uniq == Unique(dt, comb)
        enc == Inverse(uniq, comb)
        ad == IF IsNumeric(dt) THEN a ELSE EncodedActual(enc, Len(a))
        nd == IF IsNumeric(dt) THEN b ELSE EncodedNew(enc, Len(ad))
        kk == IF IsNumeric(dt) THEN k ELSE CategoricalBins(uniq, k)
    IN IF ad = <<>> \/ nd = <<>> THEN "error"
       ELSE IF BinsInvalid(kk) THEN "error"
       ELSE LET rng == DataRange(ad, nd)
                af == ActualFloor(Fractions(ActualHistogram(ad, kk, rng)[1], ad))
                nf == NewFloor(Fractions(NewHistogram(nd, kk, rng)[1], nd))
            IN SumTerms(PsiValues(af, nf))

\* ------------------------------------------------------------- properties
Numeric == IsNumeric(dtype)
NonEmptyArgs == arg_actual # <<>> /\ arg_new # <<>>
AfterHist == pc \in {"normalize", "floor", "psi", "done"}
AfterFloor == pc \in {"psi", "done"}
Finite == {"zero", "pos", "neg", "mixed"}
RatEq(p, q) == p[1] * q[2] = q[1] * p[2]

\* the smallest and largest value of the two samples taken together
LowOfBoth == CHOOSE m \in Range(actual_data) \cup Range(new_data) :
                \A x \in Range(actual_data) \cup Range(new_data) : m <= x
HighOfBoth == CHOOSE m \in Range(actual_data) \cup Range(new_data) :
                \A x \in Range(actual_data) \cup Range(new_data) : m >= x

\* C1 (identity): a call with the same non-empty numeric sequence as both
\* samples and a positive bin count never fails, its two floored density
\* vectors are equal entry by entry, every per-bin term is 0 and the
\* returned PSI is 0.
C1_Identity ==
    (Numeric /\ arg_actual = arg_new /\ arg_actual # <<>> /\ arg_bins >= 1) =>
        /\ pc # "error"
        /\ AfterFloor => actual_fractions = new_fractions
        /\ pc = "done" =>
              /\ \A i \in 1..Len(psi_values) : psi_values[i] = "zero"
              /\ psi_value = "zero"

\* the identity case with at least one empty (floored) bin and one full bin
C1_Witness ==
    /\ pc = "done" /\ Numeric /\ arg_actual = arg_new
    /\ Cardinality(Range(arg_actual)) >= 2 /\ bins >= 3
    /\ \E i \in 1..bins : raw_actual[i][1] = 0
    /\ psi_value = "zero"

\* C2 (non-negativity): in every returned call each per-bin term is >= 0,
\* is 0 exactly when the two floored densities of the bin are equal, and
\* the PSI is >= 0; the call with the two samples swapped also returns a
\* finite PSI >= 0.
C2_NonNegative ==
    pc = "done" =>
        /\ \A i \in 1..Len(psi_values) :
              /\ psi_values[i] \in {"zero", "pos"}
              /\ psi_values[i] = "zero" <=> RatEq(actual_fractions[i], new_fractions[i])
        /\ psi_value \in {"zero", "pos"}
        /\ psi_value = "zero" <=> \A i \in 1..Len(psi_values) : psi_values[i] = "zero"
        /\ CalculatePsi(dtype, arg_new, arg_actual, arg_bins) \in {"zero", "pos"}

\* a positive PSI with a bin where the baseline density is the smaller one
\* and a bin floored on one side only
C2_Witness ==
    /\ pc = "done" /\ Numeric /\ psi_value = "pos"
    /\ \E i \in 1..bins :
          actual_fractions[i][1] * new_fractions[i][2]
              < new_fractions[i][1] * actual_fractions[i][2]
    /\ \E i \in 1..bins : raw_actual[i][1] = 0 /\ raw_new[i][1] # 0
    /\ CalculatePsi(dtype, arg_new, arg_actual, arg_bins) = "pos"

\* both histograms were computed with `bins` bins over the range from the
\* smallest to the largest value of the two samples together (widened by
\* 0.5 on each side when that range has zero width)
SharedRange ==
    AfterHist =>
        /\ Len(actual_hist) = bins /\ Len(new_hist) = bins
        /\ actual_edges = new_edges
        /\ Len(actual_edges) = bins + 1
        /\ LET lo == LowOfBoth
               hi == HighOfBoth
               w == IF lo = hi THEN 1 ELSE 0
           IN /\ actual_edges[1] = bins * (2 * lo - w)
              /\ actual_edges[bins + 1] = bins * (2 * hi + w)
              /\ data_range = <<lo, hi>>

\* every value of one sample lies strictly below every value of the other
Separated ==
    \/ \A x \in Range(actual_data), y \in Range(new_data) : x < y
    \/ \A x \in Range(actual_data), y \in Range(new_data) : y < x

AllCategories == Range(arg_actual) \cup Range(arg_new)

CategoricalOverride ==
    /\ (~Numeric /\ pc \notin {"cast", "encode"}) =>
          /\ bins = Cardinality(AllCategories)
          /\ warnings = 1
          /\ AfterHist => Len(actual_hist) = bins /\ Len(new_hist) = bins
    /\ Numeric => warnings = 0 /\ bins = arg_bins
    /\ pc \in {"cast", "encode"} => warnings = 0

\* C4 as stated (categorical override): with a non-numeric baseline the bin
\* count of both histograms is the number of distinct values of the two
\* samples together whatever the caller supplied, exactly one warning is
\* emitted (none in numeric mode), and the call does not end in an error
\* but goes on to return a PSI value.
C4_Original ==
    /\ CategoricalOverride
    /\ ~Numeric => pc # "error"

\* C4 as amended (categorical override): as stated, except that the call
\* goes on to return a PSI value provided both samples are non-empty (an
\* empty sample still ends the call in the range step's error, after the
\* warning).
C4_CategoricalOverride ==
    /\ CategoricalOverride
    /\ (~Numeric /\ NonEmptyArgs) =>
          /\ pc # "error"
          /\ pc = "done" => psi_value \in Finite
    /\ (~Numeric /\ pc = "error") => warnings = 1 /\ ~NonEmptyArgs

\* the spec's example shape: three categories, a caller-supplied bin count
\* that is not 3 (here not even valid), one warning, a PSI returned
C4_Witness ==
    /\ pc = "done" /\ ~Numeric
    /\ arg_bins < 1 /\ bins = 3 /\ warnings = 1
    /\ psi_value \in Finite

\* C5 (zero-density floor): after the floor step every density is > 0; an
\* entry differs from its pre-floor value only if that value was 0, and is
\* then 0.0001; each vector is floored by its own zeros only; and every
\* returned PSI, with every per-bin term, is finite.
C5_ZeroFloor ==
    /\ AfterFloor =>
          /\ Len(actual_fractions) = Len(raw_actual)
          /\ Len(new_fractions) = Len(raw_new)
          /\ \A i \in 1..Len(actual_fractions) :
                /\ actual_fractions[i][1] > 0 /\ actual_fractions[i][2] > 0
                /\ raw_actual[i][1] # 0 => actual_fractions[i] = raw_actual[i]
                /\ raw_actual[i][1] = 0 => actual_fractions[i] = <<1, 10000>>
          /\ \A i \in 1..Len(new_fractions) :
                /\ new_fractions[i][1] > 0 /\ new_fractions[i][2] > 0
                /\ raw_new[i][1] # 0 => new_fractions[i] = raw_new[i]
                /\ raw_new[i][1] = 0 => new_fractions[i] = <<1, 10000>>
    /\ pc = "done" =>
          /\ \A i \in 1..Len(psi_values) : psi_values[i] \in {"zero", "pos", "neg"}
          /\ psi_value \in Finite

\* a bin empty in the baseline and non-empty in the comparison sample, and
\* another the other way round
C5_Witness ==
    /\ pc = "done"
    /\ \E i \in 1..bins : raw_actual[i][1] = 0 /\ raw_new[i][1] # 0
    /\ \E i \in 1..bins : raw_actual[i][1] # 0 /\ raw_new[i][1] = 0
    /\ psi_value \in Finite

\* C6 (invalid bin count): a bin count below 1 never gets past the first
\* histogram call: the call ends in an error, which is final (no step
\* follows it) and leaves no PSI value.
C6_InvalidBins ==
    /\ pc \in {"new_hist", "normalize", "floor", "psi", "done"} => bins >= 1
    /\ (pc \notin {"cast", "encode"} /\ bins < 1) => pc \in {"range", "actual_hist", "error"}
    /\ pc = "error" => psi_value = "unset" /\ error # "none" /\ ~ENABLED Next
    /\ pc = "done" => error = "none" /\ psi_value # "unset"

\* non-empty numeric samples, a non-positive bin count: the histogram raises
C6_Witness ==
    /\ pc = "error" /\ Numeric /\ NonEmptyArgs /\ bins < 1
    /\ error = "ValueError: bins must be positive"

\* both samples non-empty and all their values one and the same
Degenerate ==
    /\ NonEmptyArgs
    /\ Cardinality(Range(arg_actual) \cup Range(arg_new)) = 1

\* C7 (degenerate range): when both samples are constant and equal, the
\* call either ends in the invalid-bin-count error (bin count below 1) or
\* returns 0, the PSI of two identical distributions: the range is widened
\* to width 1 and both samples fall whole into one and the same bin.
C7_DegenerateRange ==
    Degenerate =>
        /\ pc = "error" => bins < 1 /\ error = "ValueError: bins must be positive"
        /\ AfterHist =>
              /\ actual_edges[bins + 1] - actual_edges[1] = 2 * bins
              /\ \E i \in 1..bins :
                    actual_hist[i] = Len(arg_actual) /\ new_hist[i] = Len(arg_new)
        /\ pc = "done" => psi_value = "zero"

\* constant equal samples of different lengths, several bins
C7_Witness ==
    /\ pc = "done" /\ Degenerate /\ Numeric
    /\ Len(arg_actual) # Len(arg_new) /\ bins >= 2
    /\ psi_value = "zero"

\* C8 (density invariant): once both histograms exist, each has `bins`
\* entries whose sum is the length of its own sample, every element equal to
\* the last bin edge is counted in the last bin, and each pre-floor
\* density vector has `bins` entries count / length, summing to 1.
C8_Density ==
    /\ AfterHist =>
          /\ Len(actual_hist) = bins /\ Len(new_hist) = bins
          /\ SumSeq(actual_hist) = Len(actual_data)
          /\ SumSeq(new_hist) = Len(new_data)
          /\ Len(actual_data) > 0 /\ Len(new_data) > 0
          /\ actual_hist[bins] >= Cardinality({i \in 1..Len(actual_data) :
                2 * bins * actual_data[i] = actual_edges[bins + 1]})
          /\ new_hist[bins] >= Cardinality({i \in 1..Len(new_data) :
                2 * bins * new_data[i] = new_edges[bins + 1]})
    /\ pc \in {"floor", "psi", "done"} =>
          /\ Len(raw_actual) = bins /\ Len(raw_new) = bins
          /\ \A i \in 1..bins :
                /\ raw_actual[i] = <<actual_hist[i], Len(actual_data)>>
                /\ raw_new[i] = <<new_hist[i], Len(new_data)>>
          /\ SumSeq([i \in 1..bins |-> raw_actual[i][1]]) = Len(actual_data)
          /\ SumSeq([i \in 1..bins |-> raw_new[i][1]]) = Len(new_data)

\* several bins over a range of non-zero width, both samples holding the
\* top value of the range
C8_Witness ==
    /\ pc = "done" /\ Numeric /\ bins >= 2
    /\ LowOfBoth < HighOfBoth
    /\ HighOfBoth \in Range(actual_data) /\ HighOfBoth \in Range(new_data)
    /\ Len(actual_data) # Len(new_data)
    /\ new_hist[bins] >= 1

\* the index of category c among the distinct categories of both arguments
CategoryIndex(c) == Cardinality({d \in AllCategories : CatRank(d) < CatRank(c)})

\* C9 (categorical re-split): after the encoding each encoded sample has
\* the length of the original sample, and its entry at every position is
\* the index, in the sorted distinct values of both samples together, of
\* the original value at that position of the same sample.
C9_Resplit ==
    (~Numeric /\ pc \notin {"cast", "encode"}) =>
        /\ Len(actual_data) = Len(arg_actual)
        /\ Len(new_data) = Len(arg_new)
        /\ \A i \in 1..Len(arg_actual) : actual_data[i] = CategoryIndex(arg_actual[i])
        /\ \A i \in 1..Len(arg_new) : new_data[i] = CategoryIndex(arg_new[i])

\* samples of different lengths whose first values differ
C9_Witness ==
    /\ pc = "range" /\ ~Numeric
    /\ NonEmptyArgs /\ Len(arg_actual) # Len(arg_new)
    /\ arg_actual[1] # arg_new[1]
    /\ Cardinality(AllCategories) >= 2

\* how often value v occurs in sequence s
Occurrences(s, v) == Cardinality({i \in 1..Len(s) : s[i] = v})

\* C10 (one bin per category): in categorical mode category index i falls
\* in bin i, so each histogram's count in bin i is the number of
\* occurrences of category i in that sample.
C10_CategoryBins ==
    (~Numeric /\ AfterHist) =>
        /\ bins = Len(unique_categories)
        /\ \A i \in 1..bins :
              /\ actual_hist[i] = Occurrences(arg_actual, unique_categories[i])
              /\ new_hist[i] = Occurrences(arg_new, unique_categories[i])
              /\ Keep(i - 1, OuterEdges(data_range))
              /\ BinIndex(i - 1, data_range, bins) = i - 1

\* three categories, the last one present in the comparison sample only
C10_Witness ==
    /\ pc = "done" /\ ~Numeric /\ bins = 3
    /\ actual_hist[3] = 0 /\ new_hist[3] >= 1
    /\ actual_hist[1] >= 1

====
